---- MODULE Spec2Model ----
(***************************************************************************)
(* A model of fetch_jokes.py: the fetch loop (fetch_jokes), the            *)
(* deduplication by identifier (deduplicate_jokes), the writing of the     *)
(* output file (save_jokes) and their orchestration (main).                *)
(*                                                                         *)
(* A joke is a decoded JSON object.  The program reads one key of it,      *)
(* "id"; everything else is carried in the key "joke".  An object without  *)
(* the key "id" is a record without the field id.  A value is named by its *)
(* JSON literal: "null", "0", "\"\"", "1", "2", ...                        *)
(***************************************************************************)
EXTENDS Integers, Sequences, FiniteSets, TLC

VARIABLES
    pc,            \* the position of the run
    i,             \* fetch_jokes: the loop variable of `for i in range(NUM_REQUESTS)`
    all_jokes,     \* fetch_jokes / main: the accumulator
    response,      \* the outcome of the request in flight (<<>>: none)
    requests,      \* the number of calls of urlopen so far
    slept,         \* whether time.sleep was called since the latest urlopen
    unique_jokes,  \* main: the value deduplicate_jokes returned (<<>> before)
    file,          \* the output file jokes.json on disk
    stdout         \* the last line printed

vars == <<pc, i, all_jokes, response, requests, slept, unique_jokes, file, stdout>>

----------------------------------------------------------------------------
(* Bounds of the model. *)

\* The largest positive integer identifier the deduplicator is given.
MaxId == 2
\* The longest accumulator the deduplicator is given on its own.
MaxLen == 3
\* The longest batch one response carries.
MaxBatch == 2
\* The longest accumulator the fetch loop builds.
MaxAcc == 4

----------------------------------------------------------------------------
(* Program constants. *)

NUM_REQUESTS == 30

----------------------------------------------------------------------------
(* Values. *)

\* The identifiers: JSON null, the integer 0, the empty string, and the
\* positive integers 1..MaxId.
None == "null"
Ids == {None, "0", "\"\""} \cup {ToString(n) : n \in 1..MaxId}

Texts == {"a", "b"}

\* The joke objects: with the key "id", and without it.
Jokes == [id : Ids, joke : Texts] \cup [joke : Texts]

SeqsUpTo(S, n) == UNION {[1..k -> S] : k \in 0..n}

\* Python's truth value of an identifier (`if joke_id and ...`): None, 0 and
\* the empty string are false.
Truthy(v) == v \notin {None, "0", "\"\"", "false"}

\* dict.get("id"): the value of the key, None when the key is absent.
GetId(joke) == IF "id" \in DOMAIN joke THEN joke.id ELSE None

----------------------------------------------------------------------------
(* deduplicate_jokes *)

\* Variant: the identifier is not recorded as seen.
RememberNothing(seen_ids, joke_id) == seen_ids

\* seen_ids.add(joke_id)
Remember(seen_ids, joke_id) == seen_ids \cup {joke_id}

\* Variant: insert(0, joke) in place of append.
CollectFront(unique, joke) == <<joke>> \o unique

\* unique_jokes.append(joke)
Collect(unique, joke) == Append(unique, joke)

\* The loop `for joke in jokes`, from position k on.
RECURSIVE DedupLoop(_, _, _, _)
DedupLoop(jokes, k, seen_ids, unique) ==
    IF k > Len(jokes) THEN unique
    ELSE LET joke == jokes[k]
             joke_id == GetId(joke)
         IN  IF Truthy(joke_id) /\ joke_id \notin seen_ids
             THEN DedupLoop(jokes, k + 1, Remember(seen_ids, joke_id), Collect(unique, joke))
             ELSE DedupLoop(jokes, k + 1, seen_ids, unique)

\* Variant: the loop starts at the second record.
DedupSkippingFirst(jokes) == DedupLoop(jokes, 2, {}, <<>>)

deduplicate_jokes(jokes) == DedupLoop(jokes, 1, {}, <<>>)

----------------------------------------------------------------------------
(* The output file.  json.dump writes an array of objects; an object is the *)
(* sequence of its members <<key, literal>>, a string value in quotes.      *)

Quoted(t) == <<"\"", t, "\"">>
Unquoted(q) == q[2]

DumpJoke(joke) ==
    IF "id" \in DOMAIN joke
    THEN << <<"id", joke.id>>, <<"joke", Quoted(joke.joke)>> >>
    ELSE << <<"joke", Quoted(joke.joke)>> >>

\* json.dump(jokes, f, indent=2, ensure_ascii=False)
Dump(jokes) == [k \in 1..Len(jokes) |-> DumpJoke(jokes[k])]

LoadJoke(obj) ==
    IF \E m \in 1..Len(obj) : obj[m][1] = "id"
    THEN [id   |-> obj[CHOOSE m \in 1..Len(obj) : obj[m][1] = "id"][2],
          joke |-> Unquoted(obj[CHOOSE m \in 1..Len(obj) : obj[m][1] = "joke"][2])]
    ELSE [joke |-> Unquoted(obj[CHOOSE m \in 1..Len(obj) : obj[m][1] = "joke"][2])]

\* json.load of a complete file
Load(text) == [k \in 1..Len(text) |-> LoadJoke(text[k])]

Line(l, k) == [line |-> l, n |-> k]

----------------------------------------------------------------------------
(* deduplicate_jokes on its own: every accumulator up to MaxLen, then the   *)
(* function applied to it, then applied to its own output.                  *)

InitDedup ==
    /\ pc = "input"
    /\ all_jokes \in SeqsUpTo(Jokes, MaxLen)
    /\ unique_jokes = <<>>
    /\ i = 0
    /\ response = <<>>
    /\ requests = 0
    /\ slept = FALSE
    /\ file = [exists |-> FALSE, text |-> <<>>, complete |-> FALSE, writes |-> 0]
    /\ stdout = Line("", 0)

Apply ==
    /\ pc = "input"
    /\ unique_jokes' = deduplicate_jokes(all_jokes)
    /\ stdout' = Line("Unique jokes", Len(unique_jokes'))
    /\ pc' = "output"
    /\ UNCHANGED <<i, all_jokes, response, requests, slept, file>>

Reapply ==
    /\ pc = "output"
    /\ all_jokes' = unique_jokes
    /\ unique_jokes' = deduplicate_jokes(unique_jokes)
    /\ stdout' = Line("Unique jokes", Len(unique_jokes'))
    /\ pc' = "output2"
    /\ UNCHANGED <<i, response, requests, slept, file>>

NextDedup == Apply \/ Reapply

SpecDedup == InitDedup /\ [][NextDedup]_vars

----------------------------------------------------------------------------
(* The endpoint.  One request ends in an exception raised by urlopen, read, *)
(* decode or json.loads (a URLError, or any other exception), or in a       *)
(* decoded object with its keys "error" and "jokes".                        *)

\* The jokes the endpoint serves.
ApiJokes == {[joke |-> "a"], [id |-> "1", joke |-> "a"], [id |-> "2", joke |-> "b"]}

Batches == SeqsUpTo(ApiJokes, MaxBatch)

Raised(e) == [raises |-> e, error |-> "absent", jokes_kind |-> "absent", jokes |-> <<>>]
Data(e, k, b) == [raises |-> "none", error |-> e, jokes_kind |-> k, jokes |-> b]

Responses ==
    {Raised("URLError"), Raised("Exception")}
    \cup {Data(e, "array", b) : e \in {"false", "true"}, b \in Batches}
    \cup {Data(e, k, <<>>) : e \in {"absent", "false", "true"}, k \in {"absent", "null"}}

\* data.get("error"), as a truth value
ErrorSignalled(data) == data.error = "true"

\* data.get("jokes", [])
GetJokes(data) == IF data.jokes_kind = "array" THEN data.jokes ELSE <<>>

\* Variant: all_jokes = jokes in place of extend.
Replaced(acc, jokes) == jokes

\* all_jokes.extend(jokes)
Extended(acc, jokes) == acc \o jokes

\* A file left by an earlier run.
OldFile ==
    [exists |-> TRUE, text |-> Dump(<<[id |-> "1", joke |-> "b"]>>),
     complete |-> TRUE, writes |-> 0]

NoFile == [exists |-> FALSE, text |-> <<>>, complete |-> FALSE, writes |-> 0]

----------------------------------------------------------------------------
(* main, from the call of fetch_jokes on. *)

Init ==
    /\ pc = "loop"
    /\ i = 0
    /\ all_jokes = <<>>
    /\ response = <<>>
    /\ requests = 0
    /\ slept = FALSE
    /\ unique_jokes = <<>>
    /\ file \in {NoFile, OldFile}
    /\ stdout = Line("Fetching jokes from API", NUM_REQUESTS)

\* urllib.request.urlopen(API_URL, timeout=10), read, decode, json.loads
Urlopen ==
    /\ pc = "loop"
    /\ i < NUM_REQUESTS
    /\ \E r \in Responses :
          /\ Len(all_jokes) + Len(r.jokes) <= MaxAcc
          /\ response' = <<r>>
    /\ requests' = requests + 1
    /\ slept' = FALSE
    /\ pc' = "handle"
    /\ UNCHANGED <<i, all_jokes, unique_jokes, file, stdout>>

\* except urllib.error.URLError
\* Variant: a network error ends the loop (break).
HandleURLErrorBreak ==
    /\ pc = "handle"
    /\ response[1].raises = "URLError"
    /\ stdout' = Line("Network error", i + 1)
    /\ response' = <<>>
    /\ i' = NUM_REQUESTS
    /\ pc' = "loop"
    /\ UNCHANGED <<all_jokes, requests, slept, unique_jokes, file>>

HandleURLError ==
    /\ pc = "handle"
    /\ response[1].raises = "URLError"
    /\ stdout' = Line("Network error", i + 1)
    /\ response' = <<>>
    /\ pc' = "delay"
    /\ UNCHANGED <<i, all_jokes, requests, slept, unique_jokes, file>>

\* except Exception: raised by the request, or by extend when "jokes" is null
HandleException ==
    /\ pc = "handle"
    /\ \/ response[1].raises = "Exception"
       \/ /\ response[1].raises = "none"
          /\ ~ErrorSignalled(response[1])
          /\ response[1].jokes_kind = "null"
    /\ stdout' = Line("Error", i + 1)
    /\ response' = <<>>
    /\ pc' = "delay"
    /\ UNCHANGED <<i, all_jokes, requests, slept, unique_jokes, file>>

\* if data.get("error"): print; continue
HandleApiError ==
    /\ pc = "handle"
    /\ response[1].raises = "none"
    /\ ErrorSignalled(response[1])
    /\ stdout' = Line("API returned an error", i + 1)
    /\ response' = <<>>
    /\ i' = i + 1
    /\ pc' = "loop"
    /\ UNCHANGED <<all_jokes, requests, slept, unique_jokes, file>>

\* jokes = data.get("jokes", []); all_jokes.extend(jokes); print
HandleJokes ==
    /\ pc = "handle"
    /\ response[1].raises = "none"
    /\ ~ErrorSignalled(response[1])
    /\ response[1].jokes_kind # "null"
    /\ all_jokes' = Extended(all_jokes, GetJokes(response[1]))
    /\ stdout' = Line("Fetched", Len(GetJokes(response[1])))
    /\ response' = <<>>
    /\ pc' = "delay"
    /\ UNCHANGED <<i, requests, slept, unique_jokes, file>>

\* if i < NUM_REQUESTS - 1: time.sleep(2)
Sleep ==
    /\ pc = "delay"
    /\ i < NUM_REQUESTS - 1
    /\ slept' = TRUE
    /\ i' = i + 1
    /\ pc' = "loop"
    /\ UNCHANGED <<all_jokes, response, requests, unique_jokes, file, stdout>>

NoSleep ==
    /\ pc = "delay"
    /\ ~(i < NUM_REQUESTS - 1)
    /\ i' = i + 1
    /\ pc' = "loop"
    /\ UNCHANGED <<all_jokes, response, requests, slept, unique_jokes, file, stdout>>

\* the loop is over: print the totals, return all_jokes
ReturnJokes ==
    /\ pc = "loop"
    /\ i >= NUM_REQUESTS
    /\ stdout' = Line("Total jokes fetched", Len(all_jokes))
    /\ pc' = "fetched"
    /\ UNCHANGED <<i, all_jokes, response, requests, slept, unique_jokes, file>>

\* Variant: the test for an empty accumulator is missing.
NeverNothing(acc) == FALSE

\* Variant: the test is made on the deduplicated result.
NothingUnique(acc) == deduplicate_jokes(acc) = <<>>

\* not all_jokes
NothingFetched(acc) == acc = <<>>

\* if not all_jokes: print("No jokes were fetched!"); return
ExitEmpty ==
    /\ pc = "fetched"
    /\ NothingFetched(all_jokes)
    /\ stdout' = Line("No jokes were fetched!", 0)
    /\ pc' = "exit"
    /\ UNCHANGED <<i, all_jokes, response, requests, slept, unique_jokes, file>>

\* unique_jokes = deduplicate_jokes(all_jokes)
Deduplicate ==
    /\ pc = "fetched"
    /\ ~NothingFetched(all_jokes)
    /\ unique_jokes' = deduplicate_jokes(all_jokes)
    /\ stdout' = Line("Unique jokes", Len(unique_jokes'))
    /\ pc' = "save"
    /\ UNCHANGED <<i, all_jokes, response, requests, slept, file>>

\* Variant: the file is opened with mode 'a'.
save_jokes_appending(jokes, old) ==
    [exists |-> TRUE, text |-> old.text \o Dump(jokes), complete |-> TRUE,
     writes |-> old.writes + 1]

\* with open(filename, 'w') as f: json.dump(jokes, f, ...)
save_jokes(jokes, old) ==
    [exists |-> TRUE, text |-> Dump(jokes), complete |-> TRUE,
     writes |-> old.writes + 1]

\* save_jokes(unique_jokes, OUTPUT_FILE); print("Done!")
Save ==
    /\ pc = "save"
    /\ file' = save_jokes(unique_jokes, file)
    /\ stdout' = Line("Done!", 0)
    /\ pc' = "done"
    /\ UNCHANGED <<i, all_jokes, response, requests, slept, unique_jokes>>

\* open raises OSError: nothing is written, the exception leaves main
SaveOpenFails ==
    /\ pc = "save"
    /\ pc' = "raised"
    /\ UNCHANGED <<i, all_jokes, response, requests, slept, unique_jokes, file, stdout>>

\* open has truncated the file and a write raises OSError: some part of the
\* text is on disk, the exception leaves main
SaveWriteFails ==
    /\ pc = "save"
    /\ \E n \in 0..Len(unique_jokes) :
          file' = [exists |-> TRUE, text |-> SubSeq(Dump(unique_jokes), 1, n),
                   complete |-> FALSE, writes |-> file.writes + 1]
    /\ pc' = "raised"
    /\ UNCHANGED <<i, all_jokes, response, requests, slept, unique_jokes, stdout>>

Next ==
    \/ Urlopen
    \/ HandleURLError
    \/ HandleException
    \/ HandleApiError
    \/ HandleJokes
    \/ Sleep
    \/ NoSleep
    \/ ReturnJokes
    \/ ExitEmpty
    \/ Deduplicate
    \/ Save
    \/ SaveOpenFails
    \/ SaveWriteFails

Spec == Init /\ [][Next]_vars

\* The runs of main together with deduplicate_jokes on every accumulator.
InitAll == Init \/ InitDedup

NextAll == Next \/ NextDedup

SpecAll == InitAll /\ [][NextAll]_vars

----------------------------------------------------------------------------
(* Properties of deduplicate_jokes, under SpecDedup (C1 under SpecAll, which *)
(* adds the runs of main): in a state "output",                             *)
(* all_jokes is the accumulator given and unique_jokes what was returned;   *)
(* in a state "output2", all_jokes is the first output and unique_jokes the *)
(* output of the function applied to it.                                    *)

\* The first position of jokes whose identifier is v.
FirstPos(jokes, v) ==
    CHOOSE k \in 1..Len(jokes) :
        /\ GetId(jokes[k]) = v
        /\ \A j \in 1..(k - 1) : GetId(jokes[j]) # v

Occurs(jokes, v) == \E k \in 1..Len(jokes) : GetId(jokes[k]) = v

NoEqualIds(jokes) ==
    \A k, l \in 1..Len(jokes) : k # l => GetId(jokes[k]) # GetId(jokes[l])

\* C1: the output of deduplicate_jokes holds no two records with equal
\* identifiers, whatever the accumulator; and so the records of a file that
\* main has written hold no two equal identifiers.
C1_NoEqualIdentifiers ==
    /\ pc \in {"output", "output2", "save", "done", "raised"} => NoEqualIds(unique_jokes)
    /\ file.writes > 0 => NoEqualIds(Load(file.text))

\* C1's case: an accumulator that repeats an identifier, deduplicated.
C1_Witness ==
    /\ pc = "output"
    /\ Len(all_jokes) = 3
    /\ Truthy(GetId(all_jokes[1]))
    /\ GetId(all_jokes[3]) = GetId(all_jokes[1])
    /\ all_jokes[3] # all_jokes[1]
    /\ Len(unique_jokes) = 2

\* C2: for each identifier value other than null that occurs in the
\* accumulator (0 and the empty string included) the output holds exactly one
\* record, the first of the accumulator with that identifier; and no record
\* with a null or absent identifier is in the output.
C2_OnePerDistinctIdentifier ==
    pc = "output" =>
        /\ \A v \in Ids \ {None} :
              Occurs(all_jokes, v) =>
                 \E m \in 1..Len(unique_jokes) :
                    /\ unique_jokes[m] = all_jokes[FirstPos(all_jokes, v)]
                    /\ \A m2 \in 1..Len(unique_jokes) :
                          GetId(unique_jokes[m2]) = v => m2 = m
        /\ \A m \in 1..Len(unique_jokes) : GetId(unique_jokes[m]) # None

\* C3: the output is the accumulator's records of first occurrence, each
\* unmodified, in the order of the accumulator.
C3_FirstOccurrenceOrder ==
    pc = "output" =>
        /\ \A m \in 1..Len(unique_jokes) :
              /\ Occurs(all_jokes, GetId(unique_jokes[m]))
              /\ unique_jokes[m] = all_jokes[FirstPos(all_jokes, GetId(unique_jokes[m]))]
        /\ \A m, m2 \in 1..Len(unique_jokes) :
              m < m2 => FirstPos(all_jokes, GetId(unique_jokes[m]))
                          < FirstPos(all_jokes, GetId(unique_jokes[m2]))

\* C3's case: two records kept around one that is dropped.
C3_Witness ==
    /\ pc = "output"
    /\ Len(all_jokes) = 3
    /\ unique_jokes = <<all_jokes[1], all_jokes[3]>>
    /\ all_jokes[1] # all_jokes[3]

\* C4: deduplicate_jokes applied to its own output returns that output.
C4_Idempotent == pc = "output2" => unique_jokes = all_jokes

\* C4's case: the function applied a second time, to an output of two or
\* more records.
C4_Witness == pc = "output2" /\ Len(unique_jokes) >= 2

----------------------------------------------------------------------------
(* Properties of a run of main, under Spec. *)

InFetch == pc \in {"loop", "handle", "delay"}
AfterFetch == pc \in {"fetched", "exit", "save", "done", "raised"}

\* C5: a request that decoded and signalled no error appends its batch (the
\* empty sequence when "jokes" is absent) to the accumulator; every other
\* request, and every other step, leaves the accumulator as it is.
C5_AccumulatorIsConcatenation ==
    [][ IF pc = "handle"
        THEN LET r == response[1]
             IN  all_jokes' =
                    IF r.raises = "none" /\ r.error # "true" /\ r.jokes_kind = "array"
                    THEN all_jokes \o r.jokes
                    ELSE all_jokes
        ELSE all_jokes' = all_jokes ]_vars

\* C5's case: four requests made, the fourth an error response, with four
\* jokes accumulated from the batches of two.
C5_Witness ==
    /\ pc = "loop"
    /\ i = 4
    /\ Len(all_jokes) = 4
    /\ stdout.line = "API returned an error"

\* C6: request i + 1 is issued when requests 1..i are over, one request per
\* index; the loop never stops before NUM_REQUESTS requests are made, and then
\* fetch_jokes returns.
C6_ExactlyNRequests ==
    /\ pc = "loop" => requests = i
    /\ pc \in {"handle", "delay"} => requests = i + 1 /\ i < NUM_REQUESTS
    /\ (pc = "handle") <=> (Len(response) = 1)
    /\ AfterFetch => requests = NUM_REQUESTS /\ i = NUM_REQUESTS
    /\ InFetch => ENABLED Next

\* C6's case: every request failed and fetch_jokes returned all the same.
C6_Witness ==
    /\ pc = "fetched"
    /\ requests = NUM_REQUESTS
    /\ all_jokes = <<>>
    /\ stdout = Line("Total jokes fetched", 0)

\* C7: every request but the first is issued after a pause taken since the
\* request before it, whatever that request's outcome; and no pause follows
\* the last request.
C7_PauseBetweenRequests ==
    [][ /\ requests' = requests + 1 => (slept <=> requests >= 1)
        /\ pc' = "fetched" => ~slept ]_vars

\* C8: with an empty accumulator main prints that no jokes were fetched and
\* returns: no deduplication, no write of the output file.
C8_EmptyAccumulatorExits ==
    /\ [](pc = "exit" =>
            /\ all_jokes = <<>>
            /\ stdout = Line("No jokes were fetched!", 0)
            /\ unique_jokes = <<>>
            /\ file \in {NoFile, OldFile})
    /\ [](pc \in {"save", "done", "raised"} => all_jokes # <<>>)
    /\ [][pc' = "exit" => pc = "fetched" /\ UNCHANGED <<file, unique_jokes>>]_vars
    /\ [][pc = "exit" => UNCHANGED vars]_vars

\* C8's case: main has returned on an empty accumulator, an older file in place.
C8_Witness == pc = "exit" /\ file = OldFile /\ requests = NUM_REQUESTS

\* C9: after save_jokes the file is the deduplicated sequence, whatever it
\* held before; an error of the file system ends the run in save_jokes.
C9_FileIsDeduplicatedSequence ==
    /\ pc = "done" =>
          /\ file.exists /\ file.complete
          /\ Load(file.text) = unique_jokes
          /\ unique_jokes = deduplicate_jokes(all_jokes)
    /\ pc = "raised" => stdout.line # "Done!" /\ ~ENABLED Next

\* C9's case: a file written with two records, a duplicate removed.
C9_Witness ==
    /\ pc = "done"
    /\ Len(unique_jokes) = 2
    /\ Len(all_jokes) > Len(unique_jokes)
    /\ Load(file.text) = unique_jokes

\* C10: without an error of the file system, the file is written exactly when
\* the accumulator is not empty, once, after deduplication, which follows the
\* whole fetch; an accumulator of records without a usable identifier gives a
\* file holding the empty sequence.
C10_WriteIffFetched ==
    /\ pc \in {"done", "exit"} => (file.writes = 1 <=> all_jokes # <<>>)
    /\ file.writes <= 1
    /\ file.writes = 1 => pc \in {"done", "raised"}
    /\ pc \in {"save", "done", "raised"} =>
          requests = NUM_REQUESTS /\ unique_jokes = deduplicate_jokes(all_jokes)
    /\ InFetch \/ pc = "fetched" => unique_jokes = <<>> /\ file.writes = 0
    /\ (pc = "done" /\ \A k \in 1..Len(all_jokes) : ~Truthy(GetId(all_jokes[k]))) =>
          file.exists /\ file.complete /\ Load(file.text) = <<>>

\* C10's case: jokes were fetched, none with an identifier, and the file was
\* written with the empty sequence.
C10_Witness ==
    /\ pc = "done"
    /\ all_jokes # <<>>
    /\ unique_jokes = <<>>
    /\ file = [exists |-> TRUE, text |-> <<>>, complete |-> TRUE, writes |-> 1]

====
